---- MODULE Spec2Model ----
(***************************************************************************)
(* A model of kudu-adapter-couch: the CouchDB adapter of Kudu.             *)
(*                                                                         *)
(*   - the relationship codec: the default modelToDocument and             *)
(*     documentToModel closures built by the constructor;                  *)
(*   - the adapter operations create, get, getAll, getRelated, update and  *)
(*     getFromView, each a synchronous part (argument checks, encoding,    *)
(*     the call to the couch collaborator) followed by the `then` callback *)
(*     that runs when the collaborator settles the promise.                *)
(*                                                                         *)
(* JavaScript values are records of one shape, objects are functions from  *)
(* a set of keys to values, and a key is its stem followed by the          *)
(* characters of its suffix, so that the template `${ key }Id`, the regex  *)
(* /Id(s?)$/ and String.substring are computed, not looked up.             *)
(***************************************************************************)
EXTENDS Integers, Sequences, FiniteSets, TLC

VARIABLES
    config,     \* the adapter's configuration after construction (views)
    heap,       \* the caller's objects, by reference (index)
    pc,         \* position of the current call: idle, pending, resolved, rejected, thrown
    op,         \* the current call: its name and arguments (and, for the
                \* caller's record, the instance's properties before the call)
    calls,      \* the calls the couch collaborator received during the current call
    response,   \* what the collaborator settled the promise with
    result,     \* what the adapter's promise resolved to
    cpc,        \* codec run: position (instance, encoded, failed, decoded;
                \* document, model, reencoded, refailed)
    cin,        \* codec run: the input object
    crel,       \* codec run: schema.relationships of the object's model
    cout,       \* codec run: the last output object
    db          \* the documents an indexing store holds, by _id

vars == <<config, heap, pc, op, calls, response, result, cpc, cin, crel, cout, db>>
adapterVars == <<config, heap, pc, op, calls, response, result>>
codecVars == <<cpc, cin, crel, cout>>

----------------------------------------------------------------------------
(* Bounds *)

MaxLen == 2     \* longest to-many sequence of an instance
MaxRows == 2    \* most documents in one store response

----------------------------------------------------------------------------
(* JavaScript values *)

NoId == ""      \* stands for an absent identifier inside a nested object

Undefined == [k |-> "undefined", s |-> "", l |-> <<>>]
Null == [k |-> "null", s |-> "", l |-> <<>>]
Str(x) == [k |-> "string", s |-> x, l |-> <<>>]
\* a nested model instance; only its id is ever read
Obj(id) == [k |-> "object", s |-> id, l |-> <<>>]
\* an array of nested model instances, given by their ids
ObjArr(ids) == [k |-> "objects", s |-> "", l |-> ids]
\* an array of strings (an entry NoId is an undefined element)
StrArr(xs) == [k |-> "strings", s |-> "", l |-> xs]

IsArray(v) == v.k \in {"objects", "strings"}

Truthy(v) ==
    CASE v.k = "undefined" -> FALSE
      [] v.k = "null" -> FALSE
      [] v.k = "string" -> v.s # ""
      [] OTHER -> TRUE

\* `v.id` throws a TypeError when v is undefined or null
CanRead(v) == v.k \notin {"undefined", "null"}

\* `v.id` for a value that can be read
IdOf(v) ==
    IF v.k = "object" /\ v.s # NoId THEN Str(v.s) ELSE Undefined

\* `v[ 0 ]` of an array
First(v) ==
    IF Len(v.l) = 0 THEN Undefined
    ELSE IF v.k = "objects" THEN Obj(v.l[1])
    ELSE IF v.l[1] = NoId THEN Undefined ELSE Str(v.l[1])

\* `v.map(( item ) => item.id)` of an array of nested instances
MapIds(v) == StrArr(v.l)

----------------------------------------------------------------------------
(* Keys and objects *)

Key(stem) == <<stem>>
ID == Key("id")
_ID == Key("_id")
REV == Key("_rev")
TYPE == Key("type")
NAME == Key("name")
LINKED == Key("linked")
TAGS == Key("tags")
EXTERNAL == Key("external")

\* `${ key }Id` and `${ key }Ids`
WithId(key) == key \o <<"I", "d">>
\* (mutation of WithIds: the to-one suffix for a sequence)
WithIdsSingular(key) == key \o <<"I", "d">>
WithIds(key) == key \o <<"I", "d", "s">>

\* key.match(/Id(s?)$/): whether it matches, and whether the group captured "s"
EndsWith(key, suffix) ==
    /\ Len(key) >= Len(suffix)
    /\ SubSeq(key, Len(key) - Len(suffix) + 1, Len(key)) = suffix

\* (mutation of Match: the captured group is never seen)
MatchNeverPlural(key) ==
    [matched |-> EndsWith(key, <<"I", "d">>) \/ EndsWith(key, <<"I", "d", "s">>),
     plural |-> FALSE]

Match(key) ==
    [matched |-> EndsWith(key, <<"I", "d">>) \/ EndsWith(key, <<"I", "d", "s">>),
     plural |-> EndsWith(key, <<"I", "d", "s">>)]

\* key.substring(0, key.length - n), for n within the suffix characters
Substring(key, n) == SubSeq(key, 1, Len(key) - n)

\* The order in which Object.keys lists the keys of the universe
KeyOrder ==
    <<TYPE, ID, _ID, REV, NAME, EXTERNAL, LINKED, TAGS,
      WithId(LINKED), WithIds(LINKED), WithId(TAGS), WithIds(TAGS),
      WithId(EXTERNAL)>>

EmptyObject == [x \in {} |-> Undefined]

Has(o, key) == key \in DOMAIN o
Get(o, key) == IF key \in DOMAIN o THEN o[key] ELSE Undefined
Set(o, key, v) == [x \in (DOMAIN o) \cup {key} |-> IF x = key THEN v ELSE o[x]]
Delete(o, key) == [x \in (DOMAIN o) \ {key} |-> o[x]]

ObjectKeys(o) == SelectSeq(KeyOrder, LAMBDA key : key \in DOMAIN o)

----------------------------------------------------------------------------
(* The relationship codec: the defaults the constructor installs *)

\* schema.relationships of a model: relationship name -> descriptor
Rel(type, hasMany) == [type |-> type, hasMany |-> hasMany]
NoRelationships == [x \in {} |-> Rel("", FALSE)]

\* instance.toJSON(): a shallow copy of the instance's own properties
ToJSON(instance) == instance

Thrown == [ok |-> FALSE, doc |-> EmptyObject]
Returned(doc) == [ok |-> TRUE, doc |-> doc]

\* (mutation of EncodeKey: the suffix is chosen by the descriptor's hasMany)
EncodeKeyBySchema(st, relationships, key) ==
    IF ~st.ok \/ ~Has(relationships, key) THEN st
    ELSE LET prop == Get(st.doc, key)
             suffixed == IF relationships[key].hasMany
                         THEN key \o <<"I", "d", "s">> ELSE key \o <<"I", "d">>
         IN
         IF ~CanRead(prop) THEN Thrown
         ELSE IF Truthy(IdOf(prop))
         THEN Returned(Delete(Set(st.doc, suffixed, IdOf(prop)), key))
         ELSE IF IsArray(prop)
         THEN IF ~CanRead(First(prop)) THEN Thrown
              ELSE IF Truthy(IdOf(First(prop)))
              THEN Returned(Delete(Set(st.doc, suffixed, MapIds(prop)), key))
              ELSE Returned(Delete(st.doc, key))
         ELSE Returned(Delete(st.doc, key))

\* One iteration of the forEach of modelToDocument, on [ok, doc]
EncodeKey(st, relationships, key) ==
    IF ~st.ok \/ ~Has(relationships, key) THEN st
    ELSE LET prop == Get(st.doc, key) IN
         IF ~CanRead(prop) THEN Thrown
         ELSE IF Truthy(IdOf(prop))
         THEN Returned(Delete(Set(st.doc, WithId(key), IdOf(prop)), key))
         ELSE IF IsArray(prop)
         THEN IF ~CanRead(First(prop)) THEN Thrown
              ELSE IF Truthy(IdOf(First(prop)))
              THEN Returned(Delete(Set(st.doc, WithIds(key), MapIds(prop)), key))
              ELSE Returned(Delete(st.doc, key))
         ELSE Returned(Delete(st.doc, key))

RECURSIVE EncodeKeys(_, _, _)
EncodeKeys(st, relationships, keys) ==
    IF keys = <<>> THEN st
    ELSE EncodeKeys(EncodeKey(st, relationships, Head(keys)), relationships, Tail(keys))

\* config.modelToDocument(instance), with relationships =
\* instance.constructor.schema.relationships: [ok, doc], ok FALSE when it throws
ModelToDocument(instance, relationships) ==
    LET json == ToJSON(instance)
        st == EncodeKeys(Returned(json), relationships, ObjectKeys(json))
    IN  IF ~st.ok THEN Thrown
        ELSE IF Truthy(Get(instance, ID))
        THEN Returned(Delete(Set(st.doc, _ID, Get(st.doc, ID)), ID))
        ELSE st

\* One iteration of the forEach of documentToModel
DecodeKey(doc, key) ==
    LET match == Match(key) IN
    IF match.matched
    THEN LET newKey == Substring(key, IF match.plural THEN 3 ELSE 2)
         IN  Delete(Set(doc, newKey, Get(doc, key)), key)
    ELSE doc

RECURSIVE DecodeKeys(_, _)
DecodeKeys(doc, keys) ==
    IF keys = <<>> THEN doc
    ELSE DecodeKeys(DecodeKey(doc, Head(keys)), Tail(keys))

\* config.documentToModel(doc); kudu.getModel(doc.type) yields a model whose
\* schema.relationships is read and not used
DocumentToModel(doc) ==
    LET stripped == DecodeKeys(doc, ObjectKeys(doc))
    IN  Delete(Set(stripped, ID, Get(stripped, _ID)), _ID)

----------------------------------------------------------------------------
(* Input universes *)

Ids == {"7", "8"}

SeqsUpTo(S, n) == UNION {[1..m -> S] : m \in 0..n}

\* Every object that gives each key of `keys` either no value or one of options[key]
RECURSIVE Build(_, _)
Build(keys, options) ==
    IF keys = <<>> THEN {EmptyObject}
    ELSE LET rest == Build(Tail(keys), options)
         IN  rest \cup {Set(o, Head(keys), v) : o \in rest, v \in options[Head(keys)]}

\* What a relationship property of an instance may hold at run time
RelValues ==
    {Null, Str("7"), Obj(NoId), Obj("7"), StrArr(<<"7", "8">>)}
        \cup {ObjArr(ids) : ids \in SeqsUpTo(Ids, MaxLen)}

InstanceKeys == <<ID, REV, NAME, WithId(EXTERNAL), LINKED, TAGS>>
InstanceOptions ==
    [key \in {InstanceKeys[i] : i \in DOMAIN InstanceKeys} |->
        CASE key = ID -> {Str("1")}
          [] key = REV -> {Str("1")}
          [] key = NAME -> {Str("n")}
          [] key = WithId(EXTERNAL) -> {Str("5")}
          [] OTHER -> RelValues]
Instances == Build(InstanceKeys, InstanceOptions)

DocumentKeys ==
    <<_ID, REV, TYPE, NAME, LINKED, WithId(LINKED), WithIds(TAGS), WithId(EXTERNAL)>>
DocumentOptions ==
    [key \in {DocumentKeys[i] : i \in DOMAIN DocumentKeys} |->
        CASE key = _ID -> {Str("1")}
          [] key = REV -> {Str("1")}
          [] key = TYPE -> {Str("doc")}
          [] key = NAME -> {Str("n")}
          [] key = LINKED -> {Str("9")}
          [] key = WithId(LINKED) -> {Str("7")}
          [] key = WithIds(TAGS) -> {StrArr(<<"7", "8">>)}
          [] OTHER -> {Str("5")}]
Documents == Build(DocumentKeys, DocumentOptions)

LinkedOnly == [key \in {LINKED} |-> Rel("link", FALSE)]
LinkedAndTags ==
    [key \in {LINKED, TAGS} |->
        IF key = LINKED THEN Rel("link", FALSE) ELSE Rel("tag", TRUE)]
Schemas == {NoRelationships, LinkedOnly, LinkedAndTags}

----------------------------------------------------------------------------
(* The adapter: records *)

View(design, view) == [given |-> TRUE, design |-> design, view |-> view]
NoView == [given |-> FALSE, design |-> "", view |-> ""]

NoOp ==
    [name |-> "none", ref |-> 0, before |-> EmptyObject, type |-> "",
     id |-> Undefined,
     ancestorType |-> "", ancestorId |-> "",
     relationship |-> [given |-> FALSE, type |-> "", hasMany |-> FALSE],
     design |-> "", view |-> ""]

NoResponse == [ok |-> FALSE, hasRows |-> FALSE, id |-> "", rev |-> "",
               docs |-> <<>>, error |-> ""]

NoResult == [kind |-> "none", ref |-> 0, docs |-> <<>>, error |-> ""]

\* The constructor's defaults for config.views
DefaultTypeView == View("kudu-adapter-couch", "type_id")
DefaultRelatedView == View("kudu-adapter-couch", "type-ancestor_type-ancestor_id")

\* new CouchAdapter(kudu, { host, port, path, views }): the resulting config
Constructor(views) ==
    [views |->
        [type |-> IF views.type.given THEN views.type ELSE DefaultTypeView,
         related |-> IF views.related.given THEN views.related
                     ELSE DefaultRelatedView]]

----------------------------------------------------------------------------
(* The codec on its own: encode an instance and decode it again, or decode *)
(* a stored document                                                       *)

NoDocuments == [id \in {} |-> EmptyObject]

Idle ==
    /\ heap = <<>>
    /\ pc = "idle"
    /\ op = NoOp
    /\ calls = <<>>
    /\ response = NoResponse
    /\ result = NoResult

InitCodec ==
    /\ config = Constructor([type |-> NoView, related |-> NoView])
    /\ Idle
    /\ cpc \in {"instance", "document"}
    /\ cin \in IF cpc = "instance" THEN Instances ELSE Documents
    /\ crel \in Schemas
    /\ cout = EmptyObject
    /\ db = NoDocuments

Encode ==
    /\ cpc = "instance"
    /\ LET r == ModelToDocument(cin, crel)
       IN  /\ cpc' = IF r.ok THEN "encoded" ELSE "failed"
           /\ cout' = r.doc
    /\ UNCHANGED <<cin, crel, adapterVars, db>>

Decode ==
    /\ cpc = "encoded"
    /\ cout' = DocumentToModel(cout)
    /\ cpc' = "decoded"
    /\ UNCHANGED <<cin, crel, adapterVars, db>>

Read ==
    /\ cpc = "document"
    /\ cout' = DocumentToModel(cin)
    /\ cpc' = "model"
    /\ UNCHANGED <<cin, crel, adapterVars, db>>

\* the decoded document, taken as a model instance of its type, encoded again
\* (a document read with get and written back with update)
Reencode ==
    /\ cpc = "model"
    /\ LET r == ModelToDocument(cout, crel)
       IN  /\ cpc' = IF r.ok THEN "reencoded" ELSE "refailed"
           /\ cout' = r.doc
    /\ UNCHANGED <<cin, crel, adapterVars, db>>

NextCodec == Encode \/ Decode \/ Read \/ Reencode

SpecCodec == InitCodec /\ [][NextCodec]_vars

----------------------------------------------------------------------------
(* The adapter's operations *)

\* The objects a caller passes as `instance`: model instances (with toJSON and
\* the schema of their constructor) and a plain object that is no model
HeapObject(props, toJSON, relationships) ==
    [props |-> props, toJSON |-> toJSON, relationships |-> relationships]

CallerKeys == <<ID, REV, NAME, LINKED>>
CallerOptions ==
    [key \in {CallerKeys[i] : i \in DOMAIN CallerKeys} |->
        CASE key = ID -> {Str("1")}
          [] key = REV -> {Str("1")}
          [] key = NAME -> {Str("n")}
          [] OTHER -> {Null, Obj("7"), ObjArr(<<>>), ObjArr(<<"7", "8">>)}]
CallerObjects ==
    {HeapObject(props, TRUE, rel) :
        props \in Build(CallerKeys, CallerOptions),
        rel \in {LinkedOnly, [key \in {LINKED} |-> Rel("link", TRUE)]}}
        \cup {HeapObject(EmptyObject, FALSE, NoRelationships)}

\* What the couch collaborator may answer
StoreIds == {"1", "2"}
StoreRevs == {"2", "3"}
StoreErrors == {"conflict", "not_found"}
StoreDocKeys == <<WithId(LINKED), WithIds(TAGS)>>
StoreDocOptions ==
    [key \in {StoreDocKeys[i] : i \in DOMAIN StoreDocKeys} |->
        IF key = WithId(LINKED) THEN {Str("7")} ELSE {StrArr(<<"7", "8">>)}]
StoreDocs ==
    {Set(Set(d, _ID, Str(id)), REV, Str("1")) :
        d \in Build(StoreDocKeys, StoreDocOptions), id \in StoreIds}

\* The views a caller may configure: none, an incomplete one, a complete one
ViewInputs ==
    {NoView, View("", ""), View("d", ""), View("", "v"), View("d", "v")}

\* One call received by the couch collaborator
StoreCall(method, doc, id, design, view, params) ==
    [method |-> method, doc |-> doc, id |-> id, design |-> design,
     view |-> view, params |-> params]
NoParams == [kind |-> "none", key |-> <<>>, include_docs |-> FALSE]
KeyParams(kind, key) == [kind |-> kind, key |-> key, include_docs |-> TRUE]

ThrowError(error) ==
    /\ pc' = "thrown"
    /\ calls' = <<>>
    /\ result' = [NoResult EXCEPT !.kind = "error", !.error = error]

Send(call) ==
    /\ pc' = "pending"
    /\ calls' = <<call>>
    /\ result' = NoResult

\* !instance || !instance.toJSON
NoInstance(arg) == arg = <<>> \/ ~arg[1].toJSON

\* (mutation of NoTypeOrId: the identifier is not checked)
NoTypeOnly(type, id) == type = ""

\* !type || !id
NoTypeOrId(type, id) == type = "" \/ ~Truthy(id)

\* !type
NoType(type) == type = ""

\* !ancestorType || !ancestorId || !relationship
NoAncestorOrRelationship(ancestorType, ancestorId, relationship) ==
    ancestorType = "" \/ ancestorId = "" \/ ~relationship.given

\* !design || !view
NoDesignOrView(design, view) == design = "" \/ view = ""

\* (mutation of NoViewAvailable: the view identifier is not checked)
NoDesignOnly(doc) == doc.design = ""

\* !doc.design || !doc.view, of a view descriptor of the configuration
NoViewAvailable(doc) == doc.design = "" \/ doc.view = ""

\* create( instance ) and update( instance ) up to the call of the store
Save(name, method, arg) ==
    /\ pc = "idle"
    /\ op' = [NoOp EXCEPT !.name = name, !.ref = Len(arg),
                          !.before = IF arg = <<>> THEN EmptyObject
                                     ELSE arg[1].props]
    /\ heap' = arg
    /\ IF NoInstance(arg)
       THEN ThrowError("instance")
       ELSE LET encoded == ModelToDocument(arg[1].props, arg[1].relationships)
            IN  IF ~encoded.ok
                THEN ThrowError("TypeError")
                ELSE Send(StoreCall(method, encoded.doc, Undefined, "", "", NoParams))
    /\ UNCHANGED <<config, response, codecVars, db>>

\* the argument: nothing, or a reference to an object of the caller
SaveArgs == {<<>>} \cup {<<o>> : o \in CallerObjects}

create == \E arg \in SaveArgs : Save("create", "insert", arg)

update == \E arg \in SaveArgs : Save("update", "update", arg)

\* get( type, id ) up to the call of the store
get ==
    \E type \in {"", "doc"},
       id \in {Undefined, Str("1"), StrArr(<<>>), StrArr(<<"1", "2">>)} :
        /\ pc = "idle"
        /\ op' = [NoOp EXCEPT !.name = "get", !.type = type, !.id = id]
        /\ IF NoTypeOrId(type, id)
           THEN ThrowError("arguments")
           ELSE Send(StoreCall(IF IsArray(id) THEN "fetch" ELSE "get",
                               EmptyObject, id, "", "", NoParams))
        /\ UNCHANGED <<config, heap, response, codecVars, db>>

\* getAll( type ) up to the call of the store
getAll ==
    \E type \in {"", "doc"} :
        /\ pc = "idle"
        /\ op' = [NoOp EXCEPT !.name = "getAll", !.type = type]
        /\ LET doc == config.views.type
           IN  IF NoType(type)
               THEN ThrowError("arguments")
               ELSE IF NoViewAvailable(doc)
               THEN ThrowError("view")
               ELSE Send(StoreCall("view", EmptyObject, Undefined, doc.design,
                                   doc.view, KeyParams("rootKey", <<type>>)))
        /\ UNCHANGED <<config, heap, response, codecVars, db>>

\* the relationship argument: nothing, a string, or a descriptor
RelationshipArgs ==
    {[given |-> FALSE, type |-> "", hasMany |-> FALSE],
     [given |-> TRUE, type |-> "", hasMany |-> FALSE],
     [given |-> TRUE, type |-> "link", hasMany |-> FALSE],
     [given |-> TRUE, type |-> "link", hasMany |-> TRUE]}

\* getRelated( ancestorType, ancestorId, relationship ) up to the call of the store
Related(ancestorType, ancestorId, relationship) ==
    /\ pc = "idle"
    /\ op' = [NoOp EXCEPT !.name = "getRelated",
                          !.ancestorType = ancestorType,
                          !.ancestorId = ancestorId,
                          !.relationship = relationship]
    /\ LET doc == config.views.related
       IN  IF NoAncestorOrRelationship(ancestorType, ancestorId, relationship)
           THEN ThrowError("arguments")
           ELSE IF NoViewAvailable(doc)
           THEN ThrowError("view")
           ELSE Send(StoreCall("view", EmptyObject, Undefined, doc.design,
                               doc.view,
                               KeyParams("key", <<relationship.type,
                                                  ancestorType, ancestorId>>)))
    /\ UNCHANGED <<config, heap, response, codecVars, db>>

getRelated ==
    \E ancestorType \in {"", "doc"}, ancestorId \in {"", "1"},
       relationship \in RelationshipArgs :
        Related(ancestorType, ancestorId, relationship)

\* getFromView( design = '', view = '', config = {} ) up to the call of the store
getFromView ==
    \E design \in {"", "d"}, view \in {"", "v"} :
        /\ pc = "idle"
        /\ op' = [NoOp EXCEPT !.name = "getFromView", !.design = design,
                              !.view = view]
        /\ IF NoDesignOrView(design, view)
           THEN ThrowError("arguments")
           ELSE Send(StoreCall("viewDocs", EmptyObject, Undefined, design, view,
                               [kind |-> "config", key |-> <<>>,
                                include_docs |-> FALSE]))
        /\ UNCHANGED <<config, heap, response, codecVars, db>>

----------------------------------------------------------------------------
(* The couch collaborator settles the promise *)

Fulfilled(id, rev, hasRows, docs, error) ==
    [ok |-> TRUE, hasRows |-> hasRows, id |-> id, rev |-> rev, docs |-> docs,
     error |-> error]

\* What the collaborator's promise may be fulfilled with, by method
Responses(method) ==
    CASE method \in {"insert", "update"} ->
            {Fulfilled(id, rev, FALSE, <<>>, "") : id \in StoreIds, rev \in StoreRevs}
      [] method = "get" ->
            {Fulfilled("", "", FALSE, <<d>>, "") : d \in StoreDocs}
      [] method \in {"fetch", "viewDocs"} ->
            {Fulfilled("", "", FALSE, docs, "") : docs \in SeqsUpTo(StoreDocs, MaxRows)}
      [] OTHER ->
            {Fulfilled("", "", TRUE, docs, "") : docs \in SeqsUpTo(StoreDocs, MaxRows)}
                \cup {Fulfilled("", "", FALSE, <<>>, "not_found")}

StoreResolves ==
    /\ pc = "pending"
    /\ response' \in Responses(calls[1].method)
    /\ pc' = "fulfilled"
    /\ UNCHANGED <<config, heap, op, calls, result, codecVars, db>>

\* (mutation of Rejection: the store's error is replaced by the adapter's own)
RejectionWrapped(error) == [kind |-> "error", ref |-> 0, docs |-> <<>>,
                            error |-> "Error"]

\* what the adapter's promise rejects with when the store's promise rejects
\* with `error`: then() has no rejection handler
Rejection(error) == [kind |-> "error", ref |-> 0, docs |-> <<>>, error |-> error]

\* A rejection passes through the adapter's `then` to the caller
StoreRejects ==
    /\ pc = "pending"
    /\ \E error \in StoreErrors :
        /\ response' = [NoResponse EXCEPT !.error = error]
        /\ result' = Rejection(error)
    /\ pc' = "rejected"
    /\ UNCHANGED <<config, heap, op, calls, codecVars, db>>

----------------------------------------------------------------------------
(* The `then` callbacks *)

Resolve(value) ==
    /\ pc' = "resolved"
    /\ result' = value

\* a callback that throws rejects the adapter's promise
Reject(error) ==
    /\ pc' = "rejected"
    /\ result' = [NoResult EXCEPT !.kind = "error", !.error = error]

InstanceResult(ref) == [NoResult EXCEPT !.kind = "instance", !.ref = ref]
ObjectResult(doc) == [NoResult EXCEPT !.kind = "object", !.docs = <<doc>>]
RowsResult(docs) == [NoResult EXCEPT !.kind = "rows", !.docs = docs]
ArrayResult(docs) == [NoResult EXCEPT !.kind = "array", !.docs = docs]

\* (mutation of MapDocuments: the documents come out in reverse)
MapDocumentsReversed(docs) ==
    [i \in DOMAIN docs |-> DocumentToModel(docs[Len(docs) + 1 - i])]

\* docs.map(documentToModel)
MapDocuments(docs) == [i \in DOMAIN docs |-> DocumentToModel(docs[i])]

\* (mutation of AssignIdAndRev: the revision is not copied)
AssignIdOnly(instance, res) ==
    [instance EXCEPT !.props = Set(@, ID, Str(res.id))]

\* instance.id = res._id; instance._rev = res._rev
AssignIdAndRev(instance, res) ==
    [instance EXCEPT !.props = Set(Set(@, ID, Str(res.id)), REV, Str(res.rev))]

\* (mutation of AssignRev: the identifier is copied too, as in create)
AssignRevAndId(instance, res) ==
    [instance EXCEPT !.props = Set(Set(@, ID, Str(res.id)), REV, Str(res.rev))]

\* instance._rev = res._rev
AssignRev(instance, res) ==
    [instance EXCEPT !.props = Set(@, REV, Str(res.rev))]

createThen ==
    /\ pc = "fulfilled" /\ op.name = "create"
    /\ heap' = [heap EXCEPT ![op.ref] = AssignIdAndRev(@, response)]
    /\ Resolve(InstanceResult(op.ref))
    /\ UNCHANGED <<config, op, calls, response, codecVars, db>>

updateThen ==
    /\ pc = "fulfilled" /\ op.name = "update"
    /\ heap' = [heap EXCEPT ![op.ref] = AssignRev(@, response)]
    /\ Resolve(InstanceResult(op.ref))
    /\ UNCHANGED <<config, op, calls, response, codecVars, db>>

\* the value get resolves to
GetValue(isArray, res) ==
    IF isArray THEN RowsResult(MapDocuments(res.docs))
    ELSE ObjectResult(DocumentToModel(res.docs[1]))

getThen ==
    /\ pc = "fulfilled" /\ op.name = "get"
    /\ Resolve(GetValue(IsArray(op.id), response))
    /\ UNCHANGED <<config, heap, op, calls, response, codecVars, db>>

getAllThen ==
    /\ pc = "fulfilled" /\ op.name = "getAll"
    /\ IF ~response.hasRows
       THEN Reject("TypeError")
       ELSE Resolve(RowsResult(MapDocuments(response.docs)))
    /\ UNCHANGED <<config, heap, op, calls, response, codecVars, db>>

\* (mutation of RelatedValue: the to-many flag is not consulted)
RelatedValueAlwaysRows(hasMany, res) == RowsResult(MapDocuments(res.docs))

\* the value getRelated resolves to, for a response that has a first row
RelatedValue(hasMany, res) ==
    IF hasMany THEN RowsResult(MapDocuments(res.docs))
    ELSE ObjectResult(DocumentToModel(res.docs[1]))

getRelatedThen ==
    /\ pc = "fulfilled" /\ op.name = "getRelated"
    /\ IF ~response.hasRows
       THEN Reject("TypeError")
       ELSE IF ~op.relationship.hasMany /\ response.docs = <<>>
       THEN Reject("TypeError")
       ELSE Resolve(RelatedValue(op.relationship.hasMany, response))
    /\ UNCHANGED <<config, heap, op, calls, response, codecVars, db>>

getFromViewThen ==
    /\ pc = "fulfilled" /\ op.name = "getFromView"
    /\ Resolve(ArrayResult(MapDocuments(response.docs)))
    /\ UNCHANGED <<config, heap, op, calls, response, codecVars, db>>

\* the caller takes the outcome; the adapter keeps nothing of the call
Return ==
    /\ pc \in {"resolved", "rejected", "thrown"}
    /\ heap' = <<>>
    /\ pc' = "idle"
    /\ op' = NoOp
    /\ calls' = <<>>
    /\ response' = NoResponse
    /\ result' = NoResult
    /\ UNCHANGED <<config, codecVars, db>>

----------------------------------------------------------------------------
(* The adapter's specification *)

Init ==
    /\ config \in {Constructor([type |-> t, related |-> r]) :
                      t \in ViewInputs, r \in ViewInputs}
    /\ Idle
    /\ cpc = "off"
    /\ cin = EmptyObject
    /\ crel = NoRelationships
    /\ cout = EmptyObject
    /\ db = NoDocuments

Next ==
    \/ create
    \/ update
    \/ get
    \/ getAll
    \/ getRelated
    \/ getFromView
    \/ StoreResolves
    \/ StoreRejects
    \/ createThen
    \/ updateThen
    \/ getThen
    \/ getAllThen
    \/ getRelatedThen
    \/ getFromViewThen
    \/ Return

Spec == Init /\ [][Next]_vars

----------------------------------------------------------------------------
(* The adapter over a store that keeps the documents it is given and       *)
(* answers the default "by relationship" view from its index               *)

\* (mutation of TypeAncestorMap: the suffix is left on the emitted name)
TypeAncestorMapUnstripped(doc) ==
    {<<Get(doc, TYPE), key, doc[key]>> :
        key \in {k \in DOMAIN doc :
                    EndsWith(k, <<"I", "d">>) /\ doc[k].k = "string"}}

\* views['type-ancestor_type-ancestor_id'].map: the keys it emits for a document
TypeAncestorMap(doc) ==
    {<<Get(doc, TYPE), Substring(key, 2), doc[key]>> :
        key \in {k \in DOMAIN doc :
                    EndsWith(k, <<"I", "d">>) /\ doc[k].k = "string"}}

\* The key [ relationship.type, ancestorType, ancestorId ] as the index holds it
IndexKey(key) ==
    <<IF key[1] = "" THEN Undefined ELSE Str(key[1]), Key(key[2]), Str(key[3])>>

StoreIdOrder == <<"1", "2">>
RevOrder == <<"1", "2", "3">>
NextRev(rev) == RevOrder[(CHOOSE i \in DOMAIN RevOrder : RevOrder[i] = rev) + 1]

\* The rows of the view for an exact key, with their documents, by document id
IndexedRows(key) ==
    LET ids == SelectSeq(StoreIdOrder,
                   LAMBDA id : /\ id \in DOMAIN db
                               /\ IndexKey(key) \in TypeAncestorMap(db[id]))
    IN  [i \in DOMAIN ids |-> db[ids[i]]]

\* The instances whose documents are stored: of two types, with the
\* relationships of LinkedAndTags
StoredKeys == <<ID, REV, LINKED, TAGS>>
StoredOptions ==
    [key \in {StoredKeys[i] : i \in DOMAIN StoredKeys} |->
        CASE key = ID -> {Str("1")}
          [] key = REV -> {Str("1"), Str("2")}
          [] key = LINKED -> {Obj("7")}
          [] OTHER -> {ObjArr(<<"7", "8">>)}]
StoredObjects ==
    {HeapObject(Set(props, TYPE, Str(type)), TRUE, LinkedAndTags) :
        props \in Build(StoredKeys, StoredOptions), type \in {"doc", "link"}}

createStored == \E o \in StoredObjects : Save("create", "insert", <<o>>)

updateStored == \E o \in StoredObjects : Save("update", "update", <<o>>)

getRelatedStored ==
    \E ancestorType \in {"link", "linked", "tags"}, ancestorId \in Ids,
       type \in {"doc", "link"} :
        Related(ancestorType, ancestorId,
                [given |-> TRUE, type |-> type, hasMany |-> TRUE])

\* whether the store takes a written document: a new one, or the next revision
\* of the one it holds
Accepts(doc) ==
    IF Has(doc, _ID) /\ doc[_ID].s \in DOMAIN db
    THEN Get(doc, REV) = db[doc[_ID].s][REV]
    ELSE ~Has(doc, REV)

StoreSaves ==
    /\ pc = "pending" /\ calls[1].method \in {"insert", "update"}
    /\ Accepts(calls[1].doc)
    /\ LET doc == calls[1].doc
       IN  \E id \in StoreIds :
            /\ IF Has(doc, _ID) THEN id = doc[_ID].s ELSE id \notin DOMAIN db
            /\ LET rev == IF id \in DOMAIN db THEN NextRev(db[id][REV].s)
                          ELSE RevOrder[1]
                   stored == Set(Set(doc, _ID, Str(id)), REV, Str(rev))
               IN  /\ db' = [x \in (DOMAIN db) \cup {id} |->
                                IF x = id THEN stored ELSE db[x]]
                   /\ response' = Fulfilled(id, rev, FALSE, <<>>, "")
    /\ pc' = "fulfilled"
    /\ UNCHANGED <<config, heap, op, calls, result, codecVars>>

StoreConflicts ==
    /\ pc = "pending" /\ calls[1].method \in {"insert", "update"}
    /\ ~Accepts(calls[1].doc)
    /\ response' = [NoResponse EXCEPT !.error = "conflict"]
    /\ result' = Rejection("conflict")
    /\ pc' = "rejected"
    /\ UNCHANGED <<config, heap, op, calls, codecVars, db>>

StoreIndexes ==
    /\ pc = "pending" /\ calls[1].method = "view"
    /\ calls[1].design = DefaultRelatedView.design
    /\ calls[1].view = DefaultRelatedView.view
    /\ calls[1].params.kind = "key"
    /\ response' = Fulfilled("", "", TRUE, IndexedRows(calls[1].params.key), "")
    /\ pc' = "fulfilled"
    /\ UNCHANGED <<config, heap, op, calls, result, codecVars, db>>

InitStore ==
    /\ config = Constructor([type |-> NoView, related |-> NoView])
    /\ Idle
    /\ cpc = "off"
    /\ cin = EmptyObject
    /\ crel = NoRelationships
    /\ cout = EmptyObject
    /\ db = NoDocuments

NextStore ==
    \/ createStored
    \/ updateStored
    \/ getRelatedStored
    \/ StoreSaves
    \/ StoreConflicts
    \/ StoreIndexes
    \/ createThen
    \/ updateThen
    \/ getRelatedThen
    \/ Return

SpecStore == InitStore /\ [][NextStore]_vars

----------------------------------------------------------------------------
(* Properties of the adapter's operations (under Spec) *)

\* C1: when the store's insert resolves with {_id, _rev}, create(instance)
\* resolves (it does not reject) to the very object it was passed, whose id is
\* then the response's _id and whose _rev is the response's _rev.
CreateReturnsInstance ==
    /\ (op.name = "create" /\ pc = "rejected") => ~response.ok
    /\ (op.name = "create" /\ pc = "resolved") =>
        /\ response.ok
        /\ result.kind = "instance"
        /\ result.ref = op.ref
        /\ Len(heap) = 1
        /\ Get(heap[op.ref].props, ID) = Str(response.id)
        /\ Get(heap[op.ref].props, REV) = Str(response.rev)

CreateReturnsInstanceWitness ==
    /\ op.name = "create" /\ pc = "resolved"
    /\ ~Has(op.before, ID)
    /\ Get(op.before, LINKED) = Obj("7")
    /\ calls[1].method = "insert"
    /\ response.id = "2" /\ response.rev = "3"
    /\ Get(heap[1].props, ID) = Str("2")

\* C2: when the store's update resolves, update(instance) resolves to the
\* object it was passed, whose _rev is the response's revision and whose other
\* properties are those it had before the call: the same id, no _id, the
\* relationship properties still holding their nested objects.
UpdateChangesOnlyRev ==
    /\ (op.name = "update" /\ pc = "rejected") => ~response.ok
    /\ (op.name = "update" /\ pc = "resolved") =>
        /\ result.kind = "instance"
        /\ result.ref = op.ref
        /\ Len(heap) = 1
        /\ Get(heap[op.ref].props, REV) = Str(response.rev)
        /\ DOMAIN heap[op.ref].props = DOMAIN op.before \cup {REV}
        /\ \A key \in DOMAIN op.before \ {REV} :
              heap[op.ref].props[key] = op.before[key]
        /\ ~Has(heap[op.ref].props, _ID)

UpdateChangesOnlyRevWitness ==
    /\ op.name = "update" /\ pc = "resolved"
    /\ Get(op.before, ID) = Str("1")
    /\ Get(op.before, REV) = Str("1")
    /\ Get(op.before, LINKED) = Obj("7")
    /\ Has(calls[1].doc, _ID)
    /\ response.id = "2" /\ response.rev = "2"
    /\ heap[1].props = Set(op.before, REV, Str("2"))

\* whether the current call lacks a required argument
MissingArgument ==
    CASE op.name \in {"create", "update"} -> op.ref = 0 \/ ~heap[op.ref].toJSON
      [] op.name = "get" -> op.type = "" \/ op.id = Undefined
      [] op.name = "getAll" -> op.type = ""
      [] op.name = "getRelated" ->
            op.ancestorType = "" \/ op.ancestorId = "" \/ ~op.relationship.given
      [] op.name = "getFromView" -> op.design = "" \/ op.view = ""
      [] OTHER -> FALSE

\* C3: a call of create, update, get, getAll, getRelated or getFromView that
\* lacks a required argument throws, within the call, an error about its
\* arguments, and the store has received no call.
MissingArgumentThrows ==
    MissingArgument =>
        /\ pc = "thrown"
        /\ result.kind = "error"
        /\ result.error \in {"instance", "arguments"}
        /\ calls = <<>>

MissingArgumentThrowsWitness ==
    /\ op.name = "getRelated" /\ pc = "thrown"
    /\ op.ancestorType = "doc" /\ op.ancestorId = "1"
    /\ ~op.relationship.given
    /\ calls = <<>>
    /\ ~NoViewAvailable(config.views.related)

\* C4: getAll (getRelated) called with all its arguments while views.type
\* (views.related) lacks its design-document identifier or its view identifier
\* throws the missing-view error, and the store has received no call.
MissingViewThrows ==
    LET incomplete(doc) == doc.design = "" \/ doc.view = ""
        failed == pc = "thrown" /\ result.kind = "error" /\ result.error = "view"
                    /\ calls = <<>>
    IN  /\ (op.name = "getAll" /\ op.type # "" /\ incomplete(config.views.type))
              => failed
        /\ (op.name = "getRelated" /\ op.ancestorType # "" /\ op.ancestorId # ""
              /\ op.relationship.given /\ incomplete(config.views.related))
              => failed

MissingViewThrowsWitness ==
    /\ op.name = "getRelated" /\ pc = "thrown"
    /\ op.relationship.given /\ op.relationship.hasMany
    /\ config.views.related = View("d", "")
    /\ config.views.type = DefaultTypeView
    /\ result.error = "view"

\* C8: getRelated with a to-one relationship resolves to the decoded document of
\* the first row of the view result, not wrapped in rows; with a to-many
\* relationship it resolves to {rows} holding the decoded document of every row.
\* It resolves whenever the view result has rows (at least one for to-one).
RelatedResultShape ==
    /\ (op.name = "getRelated" /\ pc = "rejected" /\ response.ok /\ response.hasRows)
          => (~op.relationship.hasMany /\ response.docs = <<>>)
    /\ (op.name = "getRelated" /\ pc = "resolved") =>
          IF op.relationship.hasMany
          THEN /\ result.kind = "rows"
               /\ Len(result.docs) = Len(response.docs)
               /\ \A i \in DOMAIN response.docs :
                     result.docs[i] = DocumentToModel(response.docs[i])
          ELSE /\ result.kind = "object"
               /\ result.docs = <<DocumentToModel(response.docs[1])>>

RelatedResultShapeWitness ==
    /\ op.name = "getRelated" /\ pc = "resolved"
    /\ ~op.relationship.hasMany
    /\ Len(response.docs) = 2
    /\ response.docs[1][_ID] = Str("2") /\ response.docs[2][_ID] = Str("1")
    /\ result.kind = "object"
    /\ Get(result.docs[1], ID) = Str("2")

\* C9: get with a sequence of identifiers and getAll resolve to {rows}, and
\* getFromView to a sequence, whose i-th element is the decoding of the i-th
\* document of the store's answer: as many, in the same order.
ListsKeepCountAndOrder ==
    (pc = "resolved" /\ (op.name \in {"getAll", "getFromView"}
                            \/ (op.name = "get" /\ IsArray(op.id)))) =>
        /\ result.kind = IF op.name = "getFromView" THEN "array" ELSE "rows"
        /\ Len(result.docs) = Len(response.docs)
        /\ \A i \in DOMAIN response.docs :
              result.docs[i] = DocumentToModel(response.docs[i])

ListsKeepCountAndOrderWitness ==
    /\ op.name = "get" /\ pc = "resolved"
    /\ op.id = StrArr(<<"1", "2">>)
    /\ calls[1].method = "fetch"
    /\ Len(response.docs) = 2
    /\ response.docs[1][_ID] = Str("2") /\ response.docs[2][_ID] = Str("1")
    /\ Get(result.docs[1], ID) = Str("2") /\ Get(result.docs[2], ID) = Str("1")

----------------------------------------------------------------------------
(* Properties of the codec (under SpecCodec) *)

\* C5: in the document the default modelToDocument produces, a relationship
\* property p holding one related object with identifier X appears as
\* pId = X, one holding a non-empty sequence of related objects with
\* identifiers [A, B, ...] appears as pIds = [A, B, ...] in that order, and the
\* bare key p is absent.
RelationshipsFlattened ==
    cpc = "encoded" =>
        \A p \in (DOMAIN crel) \cap (DOMAIN cin) :
            /\ (cin[p].k = "object" /\ cin[p].s # NoId) =>
                  /\ Get(cout, WithId(p)) = Str(cin[p].s)
                  /\ ~Has(cout, p)
            /\ (cin[p].k = "objects" /\ cin[p].l # <<>>) =>
                  /\ Get(cout, p \o <<"I", "d", "s">>) = StrArr(cin[p].l)
                  /\ ~Has(cout, p)

RelationshipsFlattenedWitness ==
    /\ cpc = "encoded"
    /\ crel = LinkedAndTags
    /\ Get(cin, LINKED) = Obj("7")
    /\ Get(cin, TAGS) = ObjArr(<<"8", "7">>)
    /\ Get(cout, WithId(LINKED)) = Str("7")
    /\ Get(cout, TAGS \o <<"I", "d", "s">>) = StrArr(<<"8", "7">>)

\* whether an instance has only scalar properties
ScalarOnly(instance, relationships) ==
    \A key \in DOMAIN instance :
        instance[key].k = "string" /\ key \notin DOMAIN relationships

\* C6 (as stated): an instance that has only scalar properties, whatever their
\* names and with or without an id, comes back from modelToDocument followed by
\* documentToModel with exactly the same keys and values.
\* (A property whose value is undefined counts as absent.)
ScalarRoundTrip ==
    (cpc = "decoded" /\ ScalarOnly(cin, crel)) =>
        /\ \A key \in DOMAIN cin : Get(cout, key) = cin[key]
        /\ \A key \in DOMAIN cout : cout[key] # Undefined => Has(cin, key)

EmptyToManyEncodes ==
    \A p \in (DOMAIN crel) \cap (DOMAIN cin) :
        (/\ cpc \in {"encoded", "failed"}
         /\ crel[p].hasMany
         /\ cin[p] = ObjArr(<<>>)
         /\ \A q \in ((DOMAIN crel) \cap (DOMAIN cin)) \ {p} :
               cin[q].k = "object" /\ cin[q].s # NoId)
        => /\ cpc = "encoded"
           /\ ~Has(cout, p \o <<"I", "d", "s">>)
           /\ ~Has(cout, p)

----------------------------------------------------------------------------
(* Rejected writes (under Spec) *)

\* C11: when the store rejects a write, create or update rejects with exactly
\* the store's error, the store has received that one write and no other call,
\* and the instance holds what it held before the call (its id and _rev
\* included).
RejectedWriteLeavesInstance ==
    (op.name \in {"create", "update"} /\ pc = "rejected") =>
        /\ ~response.ok
        /\ result.kind = "error"
        /\ result.error = response.error
        /\ Len(calls) = 1
        /\ calls[1].method = (IF op.name = "create" THEN "insert" ELSE "update")
        /\ Len(heap) = 1
        /\ heap[op.ref].props = op.before
        /\ Get(heap[op.ref].props, ID) = Get(op.before, ID)
        /\ Get(heap[op.ref].props, REV) = Get(op.before, REV)

RejectedWriteLeavesInstanceWitness ==
    /\ op.name = "update" /\ pc = "rejected"
    /\ Get(op.before, ID) = Str("1")
    /\ Get(op.before, REV) = Str("1")
    /\ calls[1].method = "update"
    /\ Get(calls[1].doc, REV) = Str("1")
    /\ response.error = "conflict"
    /\ result.error = "conflict"
    /\ Get(heap[1].props, REV) = Str("1")

----------------------------------------------------------------------------
(* The suffix of an encoded relationship (under SpecCodec) *)

\* C12 (as stated): the suffix is determined by the schema alone: an instance
\* whose relationship property holds one related object, and the instance that
\* differs from it only in holding a sequence of that object there, are encoded
\* under the same suffix.
SuffixFollowsSchema ==
    cpc = "encoded" =>
        \A p \in (DOMAIN crel) \cap (DOMAIN cin) :
            (cin[p].k = "object" /\ cin[p].s # NoId) =>
                LET other == ModelToDocument(Set(cin, p, ObjArr(<<cin[p].s>>)), crel).doc
                IN  /\ Has(cout, p \o <<"I", "d">>) <=> Has(other, p \o <<"I", "d">>)
                    /\ Has(cout, p \o <<"I", "d", "s">>)
                          <=> Has(other, p \o <<"I", "d", "s">>)

\* C12 (amended): the suffix is determined by the run-time shape of the value
\* alone, whatever the descriptor's hasMany: one related object with an
\* identifier is encoded under pId and not pIds, a non-empty sequence of related
\* objects whose first has an identifier under pIds and not pId, and any
\* other value under neither.
SuffixFollowsShape ==
    cpc = "encoded" =>
        \A p \in (DOMAIN crel) \cap (DOMAIN cin) :
            LET one == Has(cout, p \o <<"I", "d">>)
                many == Has(cout, p \o <<"I", "d", "s">>)
            IN  CASE cin[p].k = "object" /\ cin[p].s # NoId -> one /\ ~many
                  [] cin[p].k = "objects" /\ cin[p].l # <<>> -> many /\ ~one
                  [] OTHER -> ~one /\ ~many

SuffixFollowsShapeWitness ==
    /\ cpc = "encoded"
    /\ crel = LinkedAndTags
    /\ ~crel[LINKED].hasMany /\ crel[TAGS].hasMany
    /\ Get(cin, LINKED) = ObjArr(<<"7", "8">>)
    /\ Get(cin, TAGS) = Obj("7")
    /\ Get(cout, LINKED \o <<"I", "d", "s">>) = StrArr(<<"7", "8">>)
    /\ Get(cout, TAGS \o <<"I", "d">>) = Str("7")

----------------------------------------------------------------------------
(* Decoding and encoding again (under SpecCodec) *)

\* C14 (as stated): a stored document that holds relationship references
\* (pId or pIds for a relationship p of its type; here with _id and _rev, no
\* bare relationship key and no other key ending in Id or Ids), decoded by
\* documentToModel and encoded again by modelToDocument as an instance of its
\* type, yields the document itself.
DecodeIsInverseOfEncode ==
    (/\ cpc \in {"reencoded", "refailed"}
     /\ Has(cin, _ID) /\ Has(cin, REV)
     /\ \E p \in DOMAIN crel :
           Has(cin, p \o <<"I", "d">>) \/ Has(cin, p \o <<"I", "d", "s">>)
     /\ \A key \in DOMAIN cin :
           /\ key \notin DOMAIN crel
           /\ Len(key) > 1 => SubSeq(key, 1, 1) \in DOMAIN crel)
    => (cpc = "reencoded" /\ cout = cin)

----------------------------------------------------------------------------
(* Related documents of a store that indexes by the default view (under    *)
(* SpecStore)                                                              *)

\* whether a stored document refers to the ancestor through one of the
\* relationship properties of its schema, as pId or within pIds
References(doc, relationships, ancestorType, ancestorId) ==
    \E p \in DOMAIN relationships :
        /\ relationships[p].type = ancestorType
        /\ \/ Get(doc, p \o <<"I", "d">>) = Str(ancestorId)
           \/ /\ Get(doc, p \o <<"I", "d", "s">>).k = "strings"
              /\ \E i \in DOMAIN Get(doc, p \o <<"I", "d", "s">>).l :
                    Get(doc, p \o <<"I", "d", "s">>).l[i] = ancestorId

\* the decoded documents a to-many result holds
ResultDocuments == {result.docs[i] : i \in DOMAIN result.docs}

\* C13 (as stated): after any creates and updates, getRelated with a to-many
\* relationship resolves to exactly the stored documents of type
\* relationship.type that refer to the ancestor of type ancestorType and
\* identifier ancestorId through a relationship property, as pId or within pIds.
RelatedAreReferencing ==
    (op.name = "getRelated" /\ pc = "resolved" /\ op.relationship.hasMany) =>
        /\ result.kind = "rows"
        /\ ResultDocuments =
              {DocumentToModel(db[id]) :
                  id \in {x \in DOMAIN db :
                            /\ Get(db[x], TYPE) = Str(op.relationship.type)
                            /\ References(db[x], LinkedAndTags,
                                          op.ancestorType, op.ancestorId)}}

\* C13 (amended): after any creates and updates, getRelated with a to-many
\* relationship resolves to exactly the stored documents of type
\* relationship.type that hold the string ancestorId under the key named
\* ancestorType followed by Id, each once: ancestorType is matched against the
\* name of the property, and identifiers held in a sequence are not found.
RelatedAreIndexed ==
    (op.name = "getRelated" /\ pc = "resolved" /\ op.relationship.hasMany) =>
        /\ result.kind = "rows"
        /\ ResultDocuments =
              {DocumentToModel(db[id]) :
                  id \in {x \in DOMAIN db :
                            /\ Get(db[x], TYPE) = Str(op.relationship.type)
                            /\ Get(db[x], Key(op.ancestorType) \o <<"I", "d">>)
                                  = Str(op.ancestorId)}}
        /\ Len(result.docs) = Cardinality(ResultDocuments)

RelatedAreIndexedWitness ==
    /\ op.name = "getRelated" /\ pc = "resolved" /\ op.relationship.hasMany
    /\ op.ancestorType = "linked" /\ op.ancestorId = "7"
    /\ op.relationship.type = "doc"
    /\ DOMAIN db = {"1", "2"}
    /\ db["1"][TYPE] = Str("doc") /\ Get(db["1"], WithId(LINKED)) = Str("7")
    /\ db["1"][REV] = Str("2")
    /\ db["2"][TYPE] = Str("doc") /\ ~Has(db["2"], WithId(LINKED))
    /\ Get(db["2"], WithIds(TAGS)) = StrArr(<<"7", "8">>)
    /\ Len(result.docs) = 1
    /\ Get(result.docs[1], ID) = Str("1")

====
